---- MODULE Spec2Model ----
(***************************************************************************)
(* Policy-gated post API (FastAPI + SQLAlchemy + Cerbos).                  *)
(*                                                                         *)
(* Every post handler of app/main.py builds a principal dict and a         *)
(* resource dict, hands them to CerbosClientClass.check_access, which      *)
(* turns them into protobuf messages and asks the remote policy decision   *)
(* point (PDP).  The handler blocks on that call; other requests run in    *)
(* other worker threads meanwhile.  A handler is therefore two steps: the  *)
(* part up to the remote call, and the part after its return.              *)
(***************************************************************************)
EXTENDS Integers, Sequences, FiniteSets, TLC

\* ---------------------------------------------------------------- bounds
MaxPosts == 1                 \* rows the posts table ever receives
Workers == {"w1", "w2"}       \* request threads that can be in flight at once
NewText == {"a"}              \* texts a PostCreate body carries
EditText == {"b"}             \* texts a PostUpdate body carries
Outcomes == {"allow", "deny", "fail"}  \* is_allowed: True, False, raises

PostIds == 1..MaxPosts

\* ------------------------------------------------------- python values
\* class Role(str, enum.Enum): a member is a str instance whose text is its
\* value and whose str() is "Role.<NAME>".
Role ==
  [ADMIN |-> "admin", AUTHOR |-> "author", READER |-> "reader"]

RoleMember(n) == [ty |-> "Role", name |-> n, v |-> Role[n]]

\* member.value : the plain str
RoleValue(m) == [ty |-> "str", name |-> "", v |-> m.v]

\* str(i) of an int
PyStr(i) == ToString(i)

\* dict.get(k, default)
DictGet(d, k, default) == IF k \in DOMAIN d THEN d[k] ELSE default

EmptyDict == [k \in {} |-> 0]

\* ------------------------------------------------------ check_access
\* Value(string_value=str(value)) for every item of dict.get("attr", {})
PbAttrs(d) ==
  LET attr == DictGet(d, "attr", EmptyDict)
  IN  [k \in DOMAIN attr |-> [string_value |-> PyStr(attr[k])]]

\* a repeated string field keeps the text of each str instance it is given
PbRoles(roles) == [i \in DOMAIN roles |-> roles[i].v]

\* engine_pb2.Principal(...): principal["roles"] raises KeyError when absent
PbPrincipal(principal) ==
  [exc |-> IF "roles" \in DOMAIN principal THEN "" ELSE "KeyError",
   id |-> DictGet(principal, "id", "0"),
   roles |-> IF "roles" \in DOMAIN principal
               THEN PbRoles(principal["roles"]) ELSE << >>,
   policy_version |-> "default",
   attr |-> PbAttrs(principal)]

\* engine_pb2.Resource(...): resource["kind"] raises KeyError when absent
PbResource(resource) ==
  [exc |-> IF "kind" \in DOMAIN resource THEN "" ELSE "KeyError",
   id |-> DictGet(resource, "id", "0"),
   kind |-> DictGet(resource, "kind", ""),
   policy_version |-> "default",
   attr |-> PbAttrs(resource)]

\* check_access up to the remote call: the two messages are built outside
\* the try block, so an exception there leaves check_access.
check_access_build(principal, resource, action) ==
  LET p == PbPrincipal(principal)
      r == PbResource(resource)
  IN  [exc |-> IF p.exc # "" THEN p.exc ELSE r.exc,
       action |-> action, principal |-> p, resource |-> r]

\* a fail-open variant: the except branch answers True
check_access_return_failopen(outcome) == outcome \in {"allow", "fail"}

\* try: return self.client.is_allowed(...)  except Exception: return False
check_access_return(outcome) == outcome = "allow"

\* ---------------------------------------------------------------- state
VARIABLES
  users,       \* users table: id -> row (id, role)
  posts,       \* posts table: id -> row (id, title, content, author_id)
  nextId,      \* next primary key the posts table hands out
  req,         \* per worker thread: the request it is serving
  creator      \* history: post id -> id of the user whose create_post made it

vars == <<users, posts, nextId, req, creator>>

NoWire == check_access_build([roles |-> << >>], [kind |-> ""], "")

Idle ==
  [pc |-> "idle", op |-> "none", user |-> 0, post_id |-> 0,
   principal |-> EmptyDict, resource |-> EmptyDict, wire |-> NoWire,
   calls |-> 0, outcome |-> "", ret |-> "", status |-> 0, detail |-> ""]

\* raise HTTPException(status_code, detail) before any check_access call
Abort(op, user, post_id, status, detail) ==
  [Idle EXCEPT !.pc = "done", !.op = op, !.user = user, !.post_id = post_id,
               !.status = status, !.detail = detail]

\* cerbos.check_access(principal, resource, action) entered by a handler:
\* either building the messages raises (the handler dies with a 500), or the
\* remote call self.client.is_allowed(...) is now in flight.
Enter(op, user, post_id, principal, resource, action) ==
  LET built == check_access_build(principal, resource, action)
      base == [Idle EXCEPT !.op = op, !.user = user, !.post_id = post_id,
                           !.principal = principal, !.resource = resource]
  IN  IF built.exc # ""
        THEN [base EXCEPT !.pc = "done", !.ret = "raise", !.status = 500,
                          !.detail = built.exc]
        ELSE [base EXCEPT !.pc = "sent", !.wire = built, !.calls = 1]

\* a variant that calls the PDP once more after a failed call
RemoteReturnRetry(r, outcome) ==
  [r EXCEPT !.outcome = outcome,
            !.ret = IF check_access_return(outcome) THEN "True" ELSE "False",
            !.calls = IF outcome = "fail" THEN @ + 1 ELSE @]

\* the try block of check_access: the one remote call made on entry has
\* returned, or raised, and check_access returns its bool
RemoteReturn(r, outcome) ==
  [r EXCEPT !.outcome = outcome,
            !.ret = IF check_access_return(outcome) THEN "True" ELSE "False"]

\* the handler's outcome once check_access has returned
Reply(r, outcome, status, detail) ==
  LET c == RemoteReturn(r, outcome)
  IN  [Idle EXCEPT !.pc = "done", !.op = c.op, !.user = c.user,
                   !.post_id = c.post_id, !.calls = c.calls,
                   !.outcome = c.outcome, !.ret = c.ret,
                   !.status = status, !.detail = detail]

\* a variant that tells the caller when the PDP could not be reached
ForbiddenLeaky(r, outcome) ==
  IF outcome = "fail"
    THEN Reply(r, outcome, 503, "Policy service unavailable")
    ELSE Reply(r, outcome, 403, "Forbidden")

\* if not cerbos.check_access(...): raise HTTPException(403, "Forbidden")
Forbidden(r, outcome) == Reply(r, outcome, 403, "Forbidden")

\* A finished handler's response goes out before anything else moves:
\* sending it touches no table, so no interleaving of the handlers is lost.
Quiet == \A v \in Workers : req[v].pc # "done"

Free(w) == Quiet /\ req[w].pc = "idle"

\* get_current_user: the token names a row of the users table, or 401
Tokens == DOMAIN users \cup {0}
Authenticated(token) == token \in DOMAIN users

\* db.query(Post).filter(Post.id == post_id).first()
Found(post_id) == post_id \in DOMAIN posts

\* the principal dicts of the call sites
PrincipalByValue(u) ==
  [id |-> PyStr(u.id), roles |-> <<RoleValue(u.role)>>]

\* a variant that passes str(current_user.role), "Role.<NAME>"
PrincipalByStr(u) ==
  [id |-> PyStr(u.id),
   roles |-> <<[ty |-> "str", name |-> "", v |-> "Role." \o u.role.name]>>]

PrincipalByMember(u) ==
  [id |-> PyStr(u.id), roles |-> <<u.role>>]

\* the resource dicts of the call sites
ResourceOfUser(u) ==
  [kind |-> "post", attr |-> [author_id |-> u.id]]

\* a variant that takes the post's own id for its author
ResourceOfPostOwnId(p) ==
  [kind |-> "post", id |-> PyStr(p.id), attr |-> [author_id |-> p.id]]

ResourceOfPost(p) ==
  [kind |-> "post", id |-> PyStr(p.id), attr |-> [author_id |-> p.author_id]]

Init ==
  /\ users = [i \in 1..3 |->
               [id |-> i,
                role |-> RoleMember(CASE i = 1 -> "ADMIN" [] i = 2 -> "AUTHOR"
                                      [] OTHER -> "READER")]]
  /\ posts = [i \in {} |-> 0]
  /\ nextId = 1
  /\ req = [w \in Workers |-> Idle]
  /\ creator = [i \in {} |-> 0]

\* --------------------------------------------------------------- handlers
PostCreate == [title : NewText, content : NewText]

\* post_update.dict(exclude_unset=True): only the fields the body carries
PostUpdate ==
  [title : EditText] \cup [content : EditText]
    \cup [title : EditText, content : EditText] \cup [none : {}]

InFlightCreates == Cardinality({w \in Workers : req[w].pc = "sent" /\ req[w].op = "create_post"})

\* POST /posts, up to the remote call.  The body is first read after
\* check_access returned, so it is drawn there; likewise in update_post.
create_post(w, token) ==
  /\ Free(w)
  /\ nextId + InFlightCreates <= MaxPosts
  /\ req' = [req EXCEPT ![w] =
       IF ~Authenticated(token)
         THEN Abort("create_post", 0, 0, 401, "Invalid credentials")
         ELSE Enter("create_post", token, 0,
                    PrincipalByValue(users[token]), ResourceOfUser(users[token]),
                    "create")]
  /\ UNCHANGED <<users, posts, nextId, creator>>

\* new_post = Post(title, content, author_id=current_user.id); add; commit
Insert(ps, id, post, author_id) ==
  [i \in DOMAIN ps \cup {id} |->
     IF i = id
       THEN [id |-> id, title |-> post.title, content |-> post.content,
             author_id |-> author_id]
       ELSE ps[i]]

\* POST /posts, after check_access returned
create_post_return(w, post, outcome) ==
  /\ Quiet /\ req[w].pc = "sent" /\ req[w].op = "create_post"
  /\ IF check_access_return(outcome)
       THEN /\ posts' = Insert(posts, nextId, post, users[req[w].user].id)
            /\ nextId' = nextId + 1
            /\ creator' = [i \in DOMAIN creator \cup {nextId} |->
                             IF i = nextId THEN req[w].user ELSE creator[i]]
            /\ req' = [req EXCEPT ![w] = Reply(req[w], outcome, 200, "")]
       ELSE /\ req' = [req EXCEPT ![w] = Forbidden(req[w], outcome)]
            /\ UNCHANGED <<posts, nextId, creator>>
  /\ UNCHANGED users

\* GET /posts, up to the remote call
get_posts(w, token) ==
  /\ Free(w)
  /\ req' = [req EXCEPT ![w] =
       IF ~Authenticated(token)
         THEN Abort("get_posts", 0, 0, 401, "Invalid credentials")
         ELSE Enter("get_posts", token, 0,
                    PrincipalByValue(users[token]), ResourceOfUser(users[token]),
                    "read")]
  /\ UNCHANGED <<users, posts, nextId, creator>>

\* GET /posts, after check_access returned
get_posts_return(w, outcome) ==
  /\ Quiet /\ req[w].pc = "sent" /\ req[w].op = "get_posts"
  /\ req' = [req EXCEPT ![w] =
       IF check_access_return(outcome)
         THEN Reply(req[w], outcome, 200, "")
         ELSE Forbidden(req[w], outcome)]
  /\ UNCHANGED <<users, posts, nextId, creator>>

\* a variant that asks the PDP before it looks the row up
OnPostAuthorizeFirst(op, action, token, post_id) ==
  IF ~Authenticated(token)
    THEN Abort(op, 0, post_id, 401, "Invalid credentials")
    ELSE Enter(op, token, post_id, PrincipalByMember(users[token]),
               [kind |-> "post", id |-> PyStr(post_id)], action)

\* the common head of get_post, update_post and delete_post: authenticate,
\* load the row or 404, then call check_access on the loaded row
OnPost(op, action, token, post_id) ==
  IF ~Authenticated(token)
    THEN Abort(op, 0, post_id, 401, "Invalid credentials")
  ELSE IF ~Found(post_id)
    THEN Abort(op, token, post_id, 404, "Post not found")
  ELSE Enter(op, token, post_id,
             PrincipalByMember(users[token]), ResourceOfPost(posts[post_id]),
             action)

\* GET /posts/{post_id}, up to the remote call
get_post(w, token, post_id) ==
  /\ Free(w)
  /\ req' = [req EXCEPT ![w] = OnPost("get_post", "read", token, post_id)]
  /\ UNCHANGED <<users, posts, nextId, creator>>

\* GET /posts/{post_id}, after check_access returned
get_post_return(w, outcome) ==
  /\ Quiet /\ req[w].pc = "sent" /\ req[w].op = "get_post"
  /\ req' = [req EXCEPT ![w] =
       IF check_access_return(outcome)
         THEN Reply(req[w], outcome, 200, "")
         ELSE Forbidden(req[w], outcome)]
  /\ UNCHANGED <<users, posts, nextId, creator>>

\* PUT /posts/{post_id}, up to the remote call
update_post(w, token, post_id) ==
  /\ Free(w)
  /\ req' = [req EXCEPT ![w] = OnPost("update_post", "update", token, post_id)]
  /\ UNCHANGED <<users, posts, nextId, creator>>

\* for field, value in body.items(): setattr(db_post, field, value)
SetAttrs(row, body) ==
  [f \in DOMAIN row |-> IF f \in DOMAIN body THEN body[f] ELSE row[f]]

\* a variant in which the updater takes the post over
update_post_return_takeover(w, post_update, outcome) ==
  /\ Quiet /\ req[w].pc = "sent" /\ req[w].op = "update_post"
  /\ IF check_access_return(outcome) /\ Found(req[w].post_id)
       THEN /\ posts' = [posts EXCEPT ![req[w].post_id] =
                           [SetAttrs(@, post_update) EXCEPT !.author_id = req[w].user]]
            /\ req' = [req EXCEPT ![w] = Reply(req[w], outcome, 200, "")]
       ELSE /\ req' = [req EXCEPT ![w] = Forbidden(req[w], outcome)]
            /\ UNCHANGED posts
  /\ UNCHANGED <<users, nextId, creator>>

\* PUT /posts/{post_id}, after check_access returned.  The row was loaded
\* before the remote call; if another request deleted it meanwhile the
\* commit/refresh of the stale instance fails and nothing is written.
update_post_return(w, post_update, outcome) ==
  /\ Quiet /\ req[w].pc = "sent" /\ req[w].op = "update_post"
  /\ IF ~check_access_return(outcome)
       THEN /\ req' = [req EXCEPT ![w] = Forbidden(req[w], outcome)]
            /\ UNCHANGED posts
     ELSE IF Found(req[w].post_id)
       THEN /\ posts' = [posts EXCEPT ![req[w].post_id] = SetAttrs(@, post_update)]
            /\ req' = [req EXCEPT ![w] = Reply(req[w], outcome, 200, "")]
       ELSE /\ req' = [req EXCEPT ![w] =
                         Reply(req[w], outcome, 500, "Internal Server Error")]
            /\ UNCHANGED posts
  /\ UNCHANGED <<users, nextId, creator>>

\* DELETE /posts/{post_id}, up to the remote call
delete_post(w, token, post_id) ==
  /\ Free(w)
  /\ req' = [req EXCEPT ![w] = OnPost("delete_post", "delete", token, post_id)]
  /\ UNCHANGED <<users, posts, nextId, creator>>

\* db.delete(db_post); db.commit()
Remove(ps, id) == [i \in DOMAIN ps \ {id} |-> ps[i]]

\* a variant that deletes first and asks afterwards
delete_post_return_unchecked(w, outcome) ==
  /\ Quiet /\ req[w].pc = "sent" /\ req[w].op = "delete_post"
  /\ posts' = Remove(posts, req[w].post_id)
  /\ req' = [req EXCEPT ![w] =
       IF check_access_return(outcome)
         THEN Reply(req[w], outcome, 200, "")
         ELSE Forbidden(req[w], outcome)]
  /\ UNCHANGED <<users, nextId, creator>>

\* DELETE /posts/{post_id}, after check_access returned.  Deleting a row
\* that another request deleted meanwhile matches no row and writes nothing.
delete_post_return(w, outcome) ==
  /\ Quiet /\ req[w].pc = "sent" /\ req[w].op = "delete_post"
  /\ IF check_access_return(outcome)
       THEN /\ posts' = Remove(posts, req[w].post_id)
            /\ req' = [req EXCEPT ![w] = Reply(req[w], outcome, 200, "")]
       ELSE /\ req' = [req EXCEPT ![w] = Forbidden(req[w], outcome)]
            /\ UNCHANGED posts
  /\ UNCHANGED <<users, nextId, creator>>

\* the handler's return value or HTTPException goes out to the client and
\* the worker thread is free again
send_response(w) ==
  /\ req[w].pc = "done"
  /\ req' = [req EXCEPT ![w] = Idle]
  /\ UNCHANGED <<users, posts, nextId, creator>>

Next ==
  \E w \in Workers :
    \/ \E t \in Tokens : create_post(w, t)
    \/ \E t \in Tokens : get_posts(w, t)
    \/ \E t \in Tokens, i \in PostIds : get_post(w, t, i)
    \/ \E t \in Tokens, i \in PostIds : update_post(w, t, i)
    \/ \E t \in Tokens, i \in PostIds : delete_post(w, t, i)
    \/ \E b \in PostCreate, o \in Outcomes : create_post_return(w, b, o)
    \/ \E o \in Outcomes : get_posts_return(w, o)
    \/ \E o \in Outcomes : get_post_return(w, o)
    \/ \E b \in PostUpdate, o \in Outcomes : update_post_return(w, b, o)
    \/ \E o \in Outcomes : delete_post_return(w, o)
    \/ send_response(w)

Spec == Init /\ [][Next]_vars

\* ------------------------------------------- check_access called directly
\* argument dicts, well-formed and not: keys may be absent, values empty
IdsIn == {"", "1"}
RolesIn == {<< >>, <<RoleMember("ADMIN")>>}
KindsIn == {"", "post"}
AttrsIn == {[author_id |-> 1]}
ActionsIn == {"read"}

PrincipalsIn ==
  [id : IdsIn, roles : RolesIn] \cup [roles : RolesIn] \cup [id : {"1"}]
    \cup [id : {"1"}, roles : RolesIn, attr : {[level |-> 3]}]

ResourcesIn ==
  [kind : KindsIn, id : {"5"}, attr : AttrsIn] \cup [kind : {"post"}]
    \cup [id : {"5"}, attr : AttrsIn]

\* check_access(principal, resource, action), up to the remote call; an
\* exception raised while the messages are built reaches the caller
check_access(w, principal, resource, action) ==
  /\ Free(w)
  /\ req' = [req EXCEPT ![w] =
       [Enter("check_access", 0, 0, principal, resource, action)
          EXCEPT !.status = 0]]
  /\ UNCHANGED <<users, posts, nextId, creator>>

\* check_access, from the return (or exception) of the remote call on
is_allowed(w, outcome) ==
  /\ Quiet /\ req[w].pc = "sent" /\ req[w].op = "check_access"
  /\ req' = [req EXCEPT ![w] =
       [Reply(req[w], outcome, 0, "") EXCEPT !.principal = req[w].principal,
                                              !.resource = req[w].resource]]
  /\ UNCHANGED <<users, posts, nextId, creator>>

NextCheck ==
  \E w \in Workers :
    \/ \E p \in PrincipalsIn, r \in ResourcesIn, a \in ActionsIn :
         check_access(w, p, r, a)
    \/ \E o \in Outcomes : is_allowed(w, o)
    \/ send_response(w)

SpecCheck == Init /\ [][NextCheck]_vars

\* ================================================================ claims
Handlers == {"create_post", "get_posts", "get_post", "update_post", "delete_post"}
Writers == {"create_post", "update_post", "delete_post"}
OnPostOps == {"get_post", "update_post", "delete_post"}

Done(w) == req[w].pc = "done"
Sent(w) == req[w].pc = "sent"
RoleOf(w) == users[req[w].user].role.v

\* C1: fail-closed.  Whenever the remote call of an operation failed,
\* check_access returned False and the operation ended 403 Forbidden;
\* a failed call never ends in an allowed (200) operation.
FailClosed ==
  \A w \in Workers :
    (Done(w) /\ req[w].outcome = "fail")
      => /\ req[w].ret = "False"
         /\ req[w].status = 403
         /\ req[w].detail = "Forbidden"

\* an admin's update_post whose remote call failed, ended 403
FailClosedWitness ==
  \E w \in Workers :
    /\ Done(w) /\ req[w].op = "update_post" /\ req[w].outcome = "fail"
    /\ req[w].status = 403 /\ RoleOf(w) = "admin"

\* C2: the posts table changes only in the step in which a create_post,
\* update_post or delete_post resumes from a check_access that returned
\* True for that very operation; an operation whose check returned False
\* ends 403 Forbidden with the posts table as it was.
GateBeforeWrite ==
  [][ /\ (posts' # posts) =>
           \E w \in Workers :
             /\ Sent(w) /\ req[w].op \in Writers
             /\ req'[w].pc = "done" /\ req'[w].outcome = "allow"
             /\ req'[w].ret = "True"
      /\ \A w \in Workers :
           (Sent(w) /\ req[w].op \in Writers /\ req'[w].pc = "done"
              /\ req'[w].ret = "False")
             => /\ posts' = posts /\ nextId' = nextId
                /\ req'[w].status = 403 /\ req'[w].detail = "Forbidden" ]_vars

\* a denied delete_post ended 403 and its target is still stored
GateBeforeWriteWitness ==
  \E w \in Workers :
    /\ Done(w) /\ req[w].op = "delete_post" /\ req[w].outcome = "deny"
    /\ req[w].status = 403 /\ req[w].post_id \in DOMAIN posts

\* C3: an authenticated get_post, update_post or delete_post whose target
\* id is not in the posts table ends 404 in its first step, with no PDP
\* call made and the posts table unchanged.
NotFoundBeforeCheck ==
  [][ \A w \in Workers :
        (/\ req[w].pc = "idle" /\ req'[w].pc # "idle"
         /\ req'[w].op \in OnPostOps /\ req'[w].status # 401
         /\ req'[w].post_id \notin DOMAIN posts)
          => /\ req'[w].pc = "done" /\ req'[w].status = 404
             /\ req'[w].detail = "Post not found"
             /\ req'[w].calls = 0 /\ req'[w].outcome = ""
             /\ posts' = posts ]_vars

\* an admin's update_post of a post that was deleted before ended 404
\* with no PDP call
NotFoundBeforeCheckWitness ==
  \E w \in Workers :
    /\ Done(w) /\ req[w].op = "update_post" /\ req[w].status = 404
    /\ req[w].calls = 0 /\ RoleOf(w) = "admin"
    /\ req[w].post_id \in DOMAIN creator /\ req[w].post_id \notin DOMAIN posts

\* C4: an operation that got past authentication and the existence check
\* has made exactly one remote call, while it waits and when it is done;
\* the others made none; the verdict of that one call decides: True iff
\* the PDP allowed, 403 iff check_access returned False.
OneCheckPerOperation ==
  \A w \in Workers :
    /\ Sent(w) => req[w].calls = 1
    /\ (Done(w) /\ req[w].op \in Handlers) =>
         /\ req[w].calls = IF req[w].status \in {401, 404} THEN 0 ELSE 1
         /\ req[w].calls = 1 =>
              /\ (req[w].ret = "True") <=> (req[w].outcome = "allow")
              /\ (req[w].status = 403) <=> (req[w].ret = "False")

\* one get_post ended 403 on a failed call while a second get_post of the
\* same user and post has its own remote call in flight
OneCheckPerOperationWitness ==
  \E v, w \in Workers :
    /\ v # w
    /\ Done(v) /\ req[v].op = "get_post" /\ req[v].outcome = "fail"
    /\ req[v].calls = 1 /\ req[v].status = 403
    /\ Sent(w) /\ req[w].op = "get_post" /\ req[w].calls = 1
    /\ req[w].user = req[v].user /\ req[w].post_id = req[v].post_id

\* C5: every completed direct call of check_access returned a bool.
NeverRaises ==
  \A w \in Workers :
    (Done(w) /\ req[w].op = "check_access") => req[w].ret \in {"True", "False"}

\* the requests C6 is about: a roles collection and a kind are given, and
\* the id is missing or empty, or the roles are empty, or the kind is empty
Malformed(principal, resource) ==
  /\ "roles" \in DOMAIN principal /\ "kind" \in DOMAIN resource
  /\ \/ "id" \notin DOMAIN principal
     \/ principal["id"] = ""
     \/ Len(principal["roles"]) = 0
     \/ resource["kind"] = ""

\* C6: a direct call of check_access on a malformed request is never
\* answered with True.
MalformedDenied ==
  \A w \in Workers :
    (/\ Done(w) /\ req[w].op = "check_access"
     /\ Malformed(req[w].principal, req[w].resource))
      => req[w].ret = "False"

\* C7: the request a handler has in flight carries exactly one role, the
\* text of the acting user's role value.
RolesNormalized ==
  \A w \in Workers :
    (Sent(w) /\ req[w].op \in Handlers)
      => /\ Len(req[w].principal["roles"]) = 1
         /\ Len(req[w].wire.principal.roles) = 1
         /\ req[w].wire.principal.roles[1] = Role[users[req[w].user].role.name]
         /\ req[w].wire.principal.roles[1] \in {"admin", "author", "reader"}

\* a delete_post by the author-role user is in flight with roles ["author"]
RolesNormalizedWitness ==
  \E w \in Workers :
    /\ Sent(w) /\ req[w].op = "delete_post"
    /\ req[w].wire.principal.roles = <<"author">>

Digits == [i \in 0..3 |-> CASE i = 0 -> "0" [] i = 1 -> "1" [] i = 2 -> "2"
                            [] OTHER -> "3"]

\* C8: in the step that sends it, the resource of create_post is kind
\* "post", id "0", author_id the decimal text of the caller's id; that of
\* get_post, update_post and delete_post is kind "post", id the decimal
\* text of the post's id, author_id the decimal text of the stored row's
\* author_id.
ResourceOnWire ==
  [][ \A w \in Workers :
        (req[w].pc = "idle" /\ req'[w].pc = "sent") =>
          LET r == req'[w].wire.resource IN
          CASE req'[w].op = "create_post" ->
                 /\ r.kind = "post" /\ r.id = "0"
                 /\ DOMAIN r.attr = {"author_id"}
                 /\ r.attr["author_id"] =
                      [string_value |-> Digits[users[req'[w].user].id]]
            [] req'[w].op \in OnPostOps ->
                 /\ r.kind = "post" /\ r.id = Digits[req'[w].post_id]
                 /\ DOMAIN r.attr = {"author_id"}
                 /\ r.attr["author_id"] =
                      [string_value |-> Digits[posts[req'[w].post_id].author_id]]
            [] OTHER -> TRUE ]_vars

\* user 3 has an update_post of user 2's post in flight: author_id "2"
ResourceOnWireWitness ==
  \E w \in Workers :
    /\ Sent(w) /\ req[w].op = "update_post" /\ req[w].user = 3
    /\ req[w].post_id \in DOMAIN posts
    /\ posts[req[w].post_id].author_id = 2
    /\ req[w].wire.resource.id = Digits[req[w].post_id]
    /\ req[w].wire.resource.attr["author_id"].string_value = "2"

\* C9: from the same state, an operation resumed with a PDP deny and the
\* same operation resumed with a failed remote call give the same
\* response, 403 "Forbidden", and the same tables, those before the step.
DenialReasonHidden ==
  [][ \A w \in Workers :
        (/\ Sent(w) /\ req[w].op \in Handlers /\ req'[w].pc = "done"
         /\ req'[w].outcome \in {"deny", "fail"})
          => /\ req'[w].status = 403 /\ req'[w].detail = "Forbidden"
             /\ posts' = posts /\ nextId' = nextId /\ users' = users ]_vars

\* a delete_post whose remote call failed ended 403 "Forbidden" and its
\* target is still stored
DenialReasonHiddenWitness ==
  \E w \in Workers :
    /\ Done(w) /\ req[w].op = "delete_post" /\ req[w].outcome = "fail"
    /\ req[w].status = 403 /\ req[w].detail = "Forbidden"
    /\ req[w].post_id \in DOMAIN posts

\* C10: every stored post has its own id and the author_id of the user
\* whose create_post made it, and every request in flight for a post
\* carries that user's id as author_id.
Ownership ==
  /\ \A i \in DOMAIN posts :
       posts[i].id = i /\ posts[i].author_id = creator[i]
  /\ \A w \in Workers :
       (Sent(w) /\ req[w].op \in OnPostOps)
         => req[w].wire.resource.attr["author_id"].string_value
              = Digits[creator[req[w].post_id]]

\* a post whose title and content another user has updated
OwnershipWitness ==
  \E w \in Workers :
    /\ Done(w) /\ req[w].op = "update_post" /\ req[w].status = 200
    /\ req[w].post_id \in DOMAIN posts
    /\ req[w].user # creator[req[w].post_id]
    /\ posts[req[w].post_id].title = "b"
    /\ posts[req[w].post_id].content = "b"

====
